---- MODULE Spec2Model ----
(***************************************************************************)
(* A model of main.py, the Telegram tennis-odds bot: the selection of the  *)
(* top 7 markets, the threshold matcher, the thresholds store and its      *)
(* JSON persistence, the command handlers and the threshold_watcher        *)
(* thread.                                                                 *)
(*                                                                         *)
(* Conventions.  A Python str is a sequence of one-character strings, so   *)
(* that lower() and split() are computed rather than assumed.  Prices and  *)
(* thresholds are integers in hundredths (2.60 is 260).  Instants are      *)
(* integers in hours; an ISO timestamp is a local hour with a UTC offset.  *)
(***************************************************************************)
EXTENDS Integers, Sequences, FiniteSets, TLC

VARIABLES
    s_data,      \* get_top7_markets: data, the list fetch_markets returned
    s_keys,      \* how many tennis sport keys were flattened into s_data
    s_failed,    \* how many of the requests for them gave no data
    s_now,       \* get_top7_markets: now_utc
    s_top7,      \* get_top7_markets: the returned list of (market, dt_utc)
    s_pc,        \* "build" while the catalogue is drawn, "done" once selected
    m_surname,   \* matcher: the surname of the threshold
    m_name,      \* matcher: o['name'] of the quoted outcome
    m_price,     \* matcher: o['price']
    m_thr,       \* matcher: the threshold price
    m_pc,        \* "new" before the first evaluation, "done" after
    m_check,     \* what check_single_threshold decides on the inputs
    m_watch,     \* what threshold_watcher decides on the inputs
    m_first,     \* both decisions as first taken, before any change of case
    thresholds,  \* the global thresholds dict
    file,        \* thresholds.json
    next_id,     \* the identity the next threshold object gets
    st_pc,       \* "run", or "saving" between the open and the end of the dump
    st_mem,      \* thresholds as it was in memory when the process last ended
    st_old,      \* the text the file held before the save last begun
    st_how,      \* how the process last ended: "clean", or "midsave"
    h_pc,        \* where the update being handled is; "idle" between updates
    h_cmd,       \* the update being handled
    h_top7,      \* check_single_threshold: top7
    h_new_list,  \* remove_threshold: new_list
    h_replies,   \* the reply_text calls of the update handled, in order
    h_saves,     \* the save_thresholds calls of the update handled
    h_error,     \* the exception that ended the handler of the update, or "none"
    n_cmds,      \* updates handled so far
    w_pc,        \* where threshold_watcher is; between two cycles "sleep"
                 \* (time.sleep(10), or the start) or "backoff" (time.sleep(60))
    w_top7,      \* threshold_watcher: top7
    w_items,     \* what is left of list(thresholds.items())
    w_chat,      \* threshold_watcher: chat
    w_user_th,   \* what is left of list(user_th)
    w_thr,       \* threshold_watcher: thr
    w_k,         \* the index in top7 of mkt
    w_error,     \* the exception line 421 logged in the cycle ended last, or "none"
    alerts,      \* threshold alerts sent, per threshold object and sender
    notices,     \* the error notices of the cycle that failed last, and who
                 \* held thresholds then; kept while the thread backs off
    undelivered, \* the thresholds whose alert from the watcher raised at line
                 \* 410: in the cycle under way (now) and in earlier ones (past)
    faults       \* whether, in this behaviour, send_message and save_thresholds
                 \* can raise

selVars == <<s_data, s_keys, s_failed, s_now, s_top7, s_pc>>
matchVars == <<m_surname, m_name, m_price, m_thr, m_pc, m_check, m_watch, m_first>>

storeVars == <<thresholds, file, next_id>>
restartVars == <<st_pc, st_mem, st_old, st_how>>

handlerVars == <<h_pc, h_cmd, h_top7, h_new_list, h_replies, h_saves, h_error, n_cmds>>
watcherVars == <<w_pc, w_top7, w_items, w_chat, w_user_th, w_thr, w_k, w_error>>
\* the watcher's own, which no handler touches
watcherLocals == <<w_pc, w_top7, w_chat, w_user_th, w_thr, w_k, w_error>>
sentVars == <<alerts, notices, undelivered>>
botVars == <<handlerVars, watcherVars, sentVars, faults>>

vars == <<selVars, matchVars, storeVars, restartVars, botVars>>

\* the variables of the matcher's specification at rest
MatchIdle ==
    /\ m_surname = <<>>
    /\ m_name = <<>>
    /\ m_price = 0
    /\ m_thr = 0
    /\ m_pc = "off"
    /\ m_check = "none"
    /\ m_watch = "none"
    /\ m_first = [check |-> "none", watch |-> "none"]

\* the variables of the store and of its restarts at rest
StoreIdle ==
    /\ thresholds = <<>>
    /\ file = [exists |-> FALSE, complete |-> FALSE, text |-> <<>>]
    /\ next_id = 1
RestartIdle ==
    /\ st_pc = "off"
    /\ st_mem = <<>>
    /\ st_old = <<>>
    /\ st_how = "none"

NoCmd == [op |-> "none", chat |-> 0, surname |-> <<>>, price |-> 0, id |-> 0]
NoThr == [surname |-> <<>>, threshold |-> 0, id |-> 0]
NoNotices == [to |-> <<>>, holders |-> {}]
NoneUndelivered == [now |-> {}, past |-> {}]

\* the variables of the handlers, the watcher and the transport at rest
BotIdle ==
    /\ h_pc = "off"
    /\ h_cmd = NoCmd
    /\ h_top7 = <<>>
    /\ h_new_list = <<>>
    /\ h_replies = <<>>
    /\ h_saves = 0
    /\ h_error = "none"
    /\ n_cmds = 0
    /\ w_pc = "off"
    /\ w_top7 = <<>>
    /\ w_items = <<>>
    /\ w_chat = [t |-> "int", n |-> 0, s |-> <<>>]
    /\ w_user_th = <<>>
    /\ w_thr = NoThr
    /\ w_k = 0
    /\ w_error = "none"
    /\ alerts = <<>>
    /\ notices = NoNotices
    /\ undelivered = NoneUndelivered
    /\ faults = FALSE

\* the variables of the selection's specification at rest
SelIdle ==
    /\ s_data = <<>>
    /\ s_keys = 0
    /\ s_failed = 0
    /\ s_now = 0
    /\ s_top7 = <<>>
    /\ s_pc = "off"

----------------------------------------------------------------------------
(* Python str helpers *)

\* str.lower() on one character of the alphabet used here
LowerChar(c) ==
    CASE c = "S" -> "s"
      [] c = "F" -> "f"
      [] c = "R" -> "r"
      [] c = "A" -> "a"
      [] c = "L" -> "l"
      [] OTHER -> c

\* str.lower()
Lower(s) == [i \in DOMAIN s |-> LowerChar(s[i])]

\* str.split(): the maximal runs of non-whitespace characters, in order
RECURSIVE SplitFrom(_, _, _)
SplitFrom(s, i, cur) ==
    IF i > Len(s)
    THEN IF cur = <<>> THEN <<>> ELSE <<cur>>
    ELSE IF s[i] = " "
         THEN IF cur = <<>>
              THEN SplitFrom(s, i + 1, <<>>)
              ELSE <<cur>> \o SplitFrom(s, i + 1, <<>>)
         ELSE SplitFrom(s, i + 1, Append(cur, s[i]))

Split(s) == SplitFrom(s, 1, <<>>)

----------------------------------------------------------------------------
(* Instants and the selection window *)

\* timedelta(days=3), in hours
WindowHours == 72

\* the [:7] of get_top7_markets
TopN == 7

\* datetime.fromisoformat(...).astimezone(timezone.utc): the instant of a
\* timestamp that parsed; the bare except skips one that did not
ParsesOk(ct) == ct.ok
ToUtc(ct) == ct.hour - ct.offset

\* 'bet365' in bk.get('key', '').lower()
IsBet365(key) == key \in {"bet365", "Bet365_AU"}

\* max(bookmakers, key=lambda b: len(markets)): the largest market count
RECURSIVE MaxMarkets(_)
MaxMarkets(bks) ==
    IF bks = <<>> THEN 0
    ELSE LET rest == MaxMarkets(Tail(bks))
             n == Len(Head(bks).markets)
         IN IF n >= rest THEN n ELSE rest

\* the first bookmaker whose key contains bet365, 0 when there is none
RECURSIVE FirstBet365(_, _)
FirstBet365(bks, i) ==
    IF i > Len(bks) THEN 0
    ELSE IF IsBet365(bks[i].key) THEN i ELSE FirstBet365(bks, i + 1)

get_play_count(mkt) ==
    LET bks == mkt.bookmakers
        i == FirstBet365(bks, 1)
    IN IF i > 0 THEN Len(bks[i].markets)
       ELSE IF bks = <<>> THEN 0
       ELSE MaxMarkets(bks)

\* the loop of get_top7_markets that builds upcoming
RECURSIVE Upcoming(_, _)
Upcoming(data, now) ==
    IF data = <<>> THEN <<>>
    ELSE LET m == Head(data)
             rest == Upcoming(Tail(data), now)
         IN IF ParsesOk(m.commence_time)
               /\ now <= ToUtc(m.commence_time)
               /\ ToUtc(m.commence_time) <= now + WindowHours
            THEN <<[mkt |-> m, dt_utc |-> ToUtc(m.commence_time)]>> \o rest
            ELSE rest

\* the sort key with the play count ascending
SortKeyLess_Ascending(x, y) ==
    \/ get_play_count(x.mkt) < get_play_count(y.mkt)
    \/ /\ get_play_count(x.mkt) = get_play_count(y.mkt)
       /\ x.dt_utc < y.dt_utc

\* key=lambda x: (-get_play_count(x[0]), x[1]), compared as Python tuples
SortKeyLess(x, y) ==
    \/ -get_play_count(x.mkt) < -get_play_count(y.mkt)
    \/ /\ get_play_count(x.mkt) = get_play_count(y.mkt)
       /\ x.dt_utc < y.dt_utc

\* sorted(): stable, so x goes after every element that is not greater
RECURSIVE InsertSorted(_, _)
InsertSorted(x, sq) ==
    IF sq = <<>> THEN <<x>>
    ELSE IF SortKeyLess(x, Head(sq))
         THEN <<x>> \o sq
         ELSE <<Head(sq)>> \o InsertSorted(x, Tail(sq))

RECURSIVE Sorted(_)
Sorted(sq) ==
    IF sq = <<>> THEN <<>>
    ELSE InsertSorted(sq[Len(sq)], Sorted(SubSeq(sq, 1, Len(sq) - 1)))

Prefix(sq, n) == SubSeq(sq, 1, IF Len(sq) < n THEN Len(sq) ELSE n)

\* the selection without the test against cutoff and cut one too late
get_top7_markets_Loose(data, now) ==
    Prefix(Sorted(Upcoming(data, now - 1)), TopN + 1)

get_top7_markets(data, now) == Prefix(Sorted(Upcoming(data, now)), TopN)

----------------------------------------------------------------------------
(* The records of the odds API that the code reads *)

Outcome(name, price) == [name |-> name, price |-> price]
Market(outcomes) == [outcomes |-> outcomes]
Bookmaker(key, markets) == [key |-> key, markets |-> markets]
Iso(hour, offset) == [ok |-> TRUE, hour |-> hour, offset |-> offset]
Unparsable == [ok |-> FALSE, hour |-> 0, offset |-> 0]
Event(ct, bookmakers) == [commence_time |-> ct, bookmakers |-> bookmakers]

NoOutcomes == Market(<<>>)

----------------------------------------------------------------------------
(* The matcher: lines 175-181 of check_single_threshold and lines 404-419  *)
(* of threshold_watcher.  A scan answers "match" with the price found,     *)
(* "nomatch", or "raise" when an index it takes does not exist.            *)

Hit(price) == [kind |-> "match", price |-> price]
Miss == [kind |-> "nomatch", price |-> 0]
Raise == [kind |-> "raise", price |-> 0]

\* o['name'].lower().split()[-1] raises IndexError on a blank name
NameRaises(name) == Split(Lower(name)) = <<>>
LastTokenLower(name) == LET t == Split(Lower(name)) IN t[Len(t)]

\* mkt['bookmakers'][0]['markets'][0]['outcomes'] raises IndexError when the
\* market has no bookmaker or its first bookmaker no market
OutcomesRaise(mkt) ==
    \/ mkt.bookmakers = <<>>
    \/ mkt.bookmakers[1].markets = <<>>
FirstOutcomes(mkt) == mkt.bookmakers[1].markets[1].outcomes

\* line 178: the condition of check_single_threshold on one outcome
CheckOutcome(o, surname_lc, thr_price) ==
    IF NameRaises(o.name) THEN "raise"
    ELSE IF LastTokenLower(o.name) = surname_lc /\ o.price <= thr_price
         THEN "match" ELSE "nomatch"

\* lines 177-180: the inner loop of check_single_threshold
RECURSIVE CheckOutcomes(_, _, _, _)
CheckOutcomes(outs, i, surname_lc, thr_price) ==
    IF i > Len(outs) THEN Miss
    ELSE LET r == CheckOutcome(outs[i], surname_lc, thr_price)
         IN IF r = "raise" THEN Raise
            ELSE IF r = "match" THEN Hit(outs[i].price)
            ELSE CheckOutcomes(outs, i + 1, surname_lc, thr_price)

\* lines 176-181: the loop over top7; the first match returns
RECURSIVE CheckMarkets(_, _, _, _)
CheckMarkets(top7, k, surname_lc, thr_price) ==
    IF k > Len(top7) THEN Miss
    ELSE IF OutcomesRaise(top7[k].mkt) THEN Raise
    ELSE LET r == CheckOutcomes(FirstOutcomes(top7[k].mkt), 1, surname_lc, thr_price)
         IN IF r.kind = "nomatch"
            THEN CheckMarkets(top7, k + 1, surname_lc, thr_price)
            ELSE r

\* the check without surname.lower()
check_single_threshold_NoLower(top7, surname, thr_price) ==
    CheckMarkets(top7, 1, surname, thr_price)

\* lines 175-181, the send apart
check_single_threshold(top7, surname, thr_price) ==
    CheckMarkets(top7, 1, Lower(surname), thr_price)

\* line 408: the condition of threshold_watcher on one outcome
WatchOutcome(o, surname, thr_price) ==
    IF NameRaises(o.name) THEN "raise"
    ELSE IF LastTokenLower(o.name) = surname /\ o.price <= thr_price
         THEN "match" ELSE "nomatch"

\* lines 407-419: the loop over the outcomes of one market, left at the
\* first match by the break
RECURSIVE WatchOutcomes(_, _, _, _)
WatchOutcomes(outs, i, surname, thr_price) ==
    IF i > Len(outs) THEN Miss
    ELSE LET r == WatchOutcome(outs[i], surname, thr_price)
         IN IF r = "raise" THEN Raise
            ELSE IF r = "match" THEN Hit(outs[i].price)
            ELSE WatchOutcomes(outs, i + 1, surname, thr_price)

\* lines 404-408 for one market of top7 and one threshold of the store
WatchMarket(mkt, thr) ==
    IF OutcomesRaise(mkt) THEN Raise
    ELSE WatchOutcomes(FirstOutcomes(mkt), 1, Lower(thr.surname), thr.threshold)

----------------------------------------------------------------------------
(* The thresholds dict and its JSON file.  A dict is the sequence of its   *)
(* entries in insertion order.  A key is a chat id as the handlers use it  *)
(* (an int) or as json.load returns it (a str).  A threshold carries, next *)
(* to 'surname' and 'threshold', the identity of the Python object; == on  *)
(* two of them compares the two fields only.                               *)

IntKey(n) == [t |-> "int", n |-> n, s |-> <<>>]
StrKey(str) == [t |-> "str", n |-> 0, s |-> str]

Threshold(surname, price, id) ==
    [surname |-> surname, threshold |-> price, id |-> id]

\* dict == of two thresholds
SameValue(a, b) == a.surname = b.surname /\ a.threshold = b.threshold

DictHas(d, k) == \E i \in DOMAIN d : d[i].key = k
DictIndex(d, k) == CHOOSE i \in DOMAIN d : d[i].key = k

\* d.get(k, default)
DictGet(d, k, default) == IF DictHas(d, k) THEN d[DictIndex(d, k)].val ELSE default

\* d[k] = v: a new key goes last, a key already there keeps its place
DictSet(d, k, v) ==
    IF DictHas(d, k)
    THEN [d EXCEPT ![DictIndex(d, k)] = [key |-> k, val |-> v]]
    ELSE Append(d, [key |-> k, val |-> v])

\* a pop that takes every key with it
DictPop_Everyone(d, k) == <<>>

\* d.pop(k, None)
DictPop(d, k) ==
    IF DictHas(d, k)
    THEN LET i == DictIndex(d, k)
         IN SubSeq(d, 1, i - 1) \o SubSeq(d, i + 1, Len(d))
    ELSE d

\* str(n) of a chat id
DigitChar(n) ==
    CASE n = 0 -> "0" [] n = 1 -> "1" [] n = 2 -> "2" [] n = 3 -> "3"
      [] n = 4 -> "4" [] n = 5 -> "5" [] n = 6 -> "6" [] n = 7 -> "7"
      [] n = 8 -> "8" [] n = 9 -> "9"

RECURSIVE Digits(_)
Digits(n) ==
    IF n < 10 THEN <<DigitChar(n)>>
    ELSE Append(Digits(n \div 10), DigitChar(n % 10))

\* json.dump writes every key as a string: an int key n as str(n)
JsonKey(k) == IF k.t = "int" THEN Digits(k.n) ELSE k.s

\* json.dump(thresholds, f): the members of the JSON object, in dict order
JsonDump(d) == [i \in DOMAIN d |-> [key |-> JsonKey(d[i].key), val |-> d[i].val]]

\* json.load(f): every member becomes an entry keyed by its string; of two
\* members with one key the later value stays
RECURSIVE JsonLoad(_)
JsonLoad(members) ==
    IF members = <<>> THEN <<>>
    ELSE LET m == members[Len(members)]
         IN DictSet(JsonLoad(SubSeq(members, 1, Len(members) - 1)),
                    StrKey(m.key), m.val)

\* thresholds.json: absent, or opened for writing and not yet written to
\* the end (not a JSON text), or a complete JSON text
FileMissing == [exists |-> FALSE, complete |-> FALSE, text |-> <<>>]
\* line 64: open(THRESHOLDS_FILE, 'w') truncates the file
FileOpenedForWrite == [exists |-> TRUE, complete |-> FALSE, text |-> <<>>]
\* line 65 and the end of the with block: the whole text is in the file
FileWritten(d) == [exists |-> TRUE, complete |-> TRUE, text |-> JsonDump(d)]

\* lines 52-60: the value load_thresholds gives the global
load_thresholds(f) ==
    IF ~f.exists THEN <<>>
    ELSE IF ~f.complete THEN <<>>
    ELSE JsonLoad(f.text)

\* line 279 / 366: thresholds.setdefault(chat, []).append({...})
StoreAppend(d, k, thr) == DictSet(d, k, Append(DictGet(d, k, <<>>), thr))

\* lines 296 and 338: thresholds.get(chat, []) for the chat id of an update
UserThresholds(d, chat) == DictGet(d, IntKey(chat), <<>>)

----------------------------------------------------------------------------
(* Spec: the command handlers (one update at a time, on the event loop)    *)
(* and the threshold_watcher thread, sharing thresholds and the file, with *)
(* the odds API changing under both.  A handler is cut where the watcher   *)
(* can run in between with an effect: before a fetch, and between the      *)
(* statements that read and that write thresholds.                         *)

\* the most updates handled in one behaviour
MaxCommands == 2
\* the most thresholds created in one behaviour
MaxAdds == 2

\* datetime.now(timezone.utc) of every fetch
BotNow == 0

\* [thr for thr in lst if thr['surname'].lower() != surname.lower()]
WithoutSurname(lst, surname) ==
    SelectSeq(lst, LAMBDA thr : Lower(thr.surname) # Lower(surname))

\* list.remove(thr) takes out the first element == thr; ValueError if none
ListHas(lst, thr) == \E i \in DOMAIN lst : SameValue(lst[i], thr)
ListRemove(lst, thr) ==
    LET i == CHOOSE x \in DOMAIN lst :
                 /\ SameValue(lst[x], thr)
                 /\ \A y \in 1..(x - 1) : ~SameValue(lst[y], thr)
    IN SubSeq(lst, 1, i - 1) \o SubSeq(lst, i + 1, Len(lst))

\* An item of list(thresholds.items()) holds the list object that was the
\* chat's when the items were listed.  While that object is still the one in
\* thresholds the item is live; once a handler binds the chat to another
\* list, or pops the chat, the object stays as it was then.
LiveItems(d) == [i \in DOMAIN d |-> [chat |-> d[i].key, live |-> TRUE, frozen |-> <<>>]]
Detach(items, k, old) ==
    [i \in DOMAIN items |->
        IF items[i].chat = k /\ items[i].live
        THEN [chat |-> k, live |-> FALSE, frozen |-> old]
        ELSE items[i]]
ItemList(item, d) == IF item.live THEN DictGet(d, item.chat, <<>>) ELSE item.frozen

\* lines 62-65: save_thresholds() run to its end writes the dict as it is
Saved(d) == FileWritten(d)

NoAlerts == [i \in 1..MaxAdds |-> [w |-> 0, h |-> 0]]

Reply(kind) == [kind |-> kind, list |-> <<>>]
ReplyList(lst) == [kind |-> "list", list |-> lst]

Participant(first, last) == first \o <<" ">> \o last

\* R SF against F R, first bookmaker quoting SF at 2.60 and R at 1.50
evQuoted ==
    Event(Iso(1, 0),
          <<Bookmaker("pinnacle",
               <<Market(<<Outcome(Participant(<<"f">>, <<"R">>), 150),
                          Outcome(Participant(<<"R">>, <<"S", "F">>), 260)>>)>>)>>)
\* a later match of SF, quoted at 2.40, with more markets
evQuotedAgain ==
    Event(Iso(30, 0),
          <<Bookmaker("bet365",
               <<Market(<<Outcome(Participant(<<"r">>, <<"s", "f">>), 240),
                          Outcome(<<"l">>, 400)>>),
                 NoOutcomes>>)>>)
\* a match after the window, SF quoted at 1.00
evAfterWindow ==
    Event(Iso(80, 0),
          <<Bookmaker("pinnacle",
               <<Market(<<Outcome(<<"S", "F">>, 100)>>)>>)>>)

\* a match in the window that no bookmaker quotes
evNoBookmaker == Event(Iso(5, 0), <<>>)

Up(data) == [up |-> TRUE, data |-> data]
Down == [up |-> FALSE, data |-> <<>>]

\* what the odds API may answer
Feeds ==
    { Up(<<evAfterWindow>>),
      Up(<<evQuoted, evQuotedAgain>>),
      Up(<<evNoBookmaker, evQuoted>>),
      Down }

BotChats == {7, 12}
AddSurnames == { <<"s", "f">>, <<"R">> }
RemoveSurnames == { <<"S", "F">>, <<"r">>, <<"A", "l", "l">> }
\* float(args[1]): a number, or ValueError
Number(val) == [ok |-> TRUE, val |-> val]
NotANumber == [ok |-> FALSE, val |-> 0]
AddPrices == {250, 300}
\* float() takes "0" and "-1.00" as it takes "2.50"
SetPrices == AddPrices \cup {-100}
\* the filter of line 451 lets digits in, with no sign
TextPrices == {250, 0}
SetThresholdArgs ==
    {[n |-> 2, surname |-> sn, price |-> Number(p)] : sn \in AddSurnames, p \in SetPrices}
    \cup {[n |-> 2, surname |-> <<"s", "f">>, price |-> NotANumber],
          [n |-> 1, surname |-> <<"s", "f">>, price |-> NotANumber]}
RemoveArgs ==
    {[n |-> 1, surname |-> sn] : sn \in RemoveSurnames}
    \cup {[n |-> 0, surname |-> <<>>]}

\* the process as line 453 and 455 leave it: no file, the watcher started
BotStarted ==
    /\ file = FileMissing
    /\ thresholds = load_thresholds(FileMissing)
    /\ next_id = 1
    /\ h_pc = "idle"
    /\ h_cmd = NoCmd
    /\ h_top7 = <<>>
    /\ h_new_list = <<>>
    /\ h_replies = <<>>
    /\ h_saves = 0
    /\ h_error = "none"
    /\ w_pc = "sleep"
    /\ w_top7 = <<>>
    /\ w_items = <<>>
    /\ w_chat = IntKey(0)
    /\ w_user_th = <<>>
    /\ w_thr = NoThr
    /\ w_k = 0
    /\ w_error = "none"
    /\ alerts = NoAlerts
    /\ notices = NoNotices
    /\ undelivered = NoneUndelivered
    /\ SelIdle
    /\ MatchIdle
    /\ RestartIdle

BotInit == BotStarted /\ n_cmds = 0 /\ faults = FALSE

\* What save_thresholds() may do here: run to its end, or raise OSError at
\* line 63 or 64, the file as it was.  (A process that ends between the open
\* and the end of the dump is StoreSpec's.)  commit_and_push comes after the
\* write and changes nothing here.
SaveOutcomes == IF faults THEN {"ok", "raises"} ELSE {"ok"}
Raises(how) == how # "ok"
save_thresholds(f, d, how) == IF Raises(how) THEN f ELSE Saved(d)

\* thresholds with the save undone when it raised
AfterSave_RolledBack(before, after, how) == IF Raises(how) THEN before ELSE after

\* lines 279-280, 291-292, 343-344, 350-351, 417-418: thresholds is changed
\* first and saved next, and no handler undoes the change when the save raises
AfterSave(before, after, how) == after

\* what send_message may do
SendOutcomes == IF faults THEN {"sent", "raises"} ELSE {"sent"}

\* the handler returns, or the exception that ended it has reached the
\* error handler of line 460; the next update can be handled
Return ==
    /\ h_pc = "done"
    /\ h_pc' = "idle"
    /\ h_cmd' = NoCmd
    /\ h_top7' = <<>>
    /\ h_new_list' = <<>>
    /\ h_replies' = <<>>
    /\ h_saves' = 0
    /\ h_error' = "none"
    /\ UNCHANGED <<n_cmds, storeVars, watcherVars, sentVars>>
    /\ UNCHANGED <<selVars, matchVars, restartVars, faults>>

\* an update arrives while none is being handled
Arrives(op, chat, surname, price, id) ==
    /\ h_pc = "idle"
    /\ n_cmds < MaxCommands
    /\ n_cmds' = n_cmds + 1
    /\ h_cmd' = [op |-> op, chat |-> chat, surname |-> surname, price |-> price, id |-> id]

\* a handler that an exception of save_thresholds ends sends no reply after it
Handled(how, replies, pc) ==
    IF Raises(how)
    THEN /\ h_replies' = <<>>
         /\ h_error' = "OSError"
         /\ h_pc' = "done"
    ELSE /\ h_replies' = replies
         /\ h_error' = "none"
         /\ h_pc' = pc

\* lines 279-286 and 366-373: the append, the save and the two replies
AddThreshold(chat, surname, price, how) ==
    /\ thresholds' = AfterSave(thresholds,
                               StoreAppend(thresholds, IntKey(chat),
                                           Threshold(surname, price, next_id)),
                               how)
    /\ next_id' = next_id + 1
    /\ file' = save_thresholds(file, thresholds', how)
    /\ h_saves' = 1
    /\ Handled(how, <<Reply("threshold_set"), Reply("got_it")>>, "check")

\* lines 265-286: /setthreshold with its arguments
SetThreshold(chat, args) ==
    /\ IF args.n = 2 /\ args.price.ok
       THEN /\ next_id <= MaxAdds
            /\ Arrives("add", chat, args.surname, args.price.val, next_id)
            /\ \E how \in SaveOutcomes :
                  AddThreshold(chat, args.surname, args.price.val, how)
       ELSE /\ Arrives("setthreshold", chat, <<>>, 0, 0)
            /\ h_replies' = <<Reply(IF args.n # 2 THEN "usage" ELSE "invalid_price")>>
            /\ h_saves' = 0
            /\ h_error' = "none"
            /\ h_pc' = "done"
            /\ UNCHANGED storeVars
    /\ UNCHANGED <<h_top7, h_new_list, watcherVars, sentVars>>
    /\ UNCHANGED <<selVars, matchVars, restartVars, faults>>

\* lines 355-373: a text "Surname Price" that the filter of line 451 lets in
TextThreshold(chat, surname, price) ==
    /\ next_id <= MaxAdds
    /\ Arrives("add", chat, surname, price, next_id)
    /\ \E how \in SaveOutcomes : AddThreshold(chat, surname, price, how)
    /\ UNCHANGED <<h_top7, h_new_list, watcherVars, sentVars>>
    /\ UNCHANGED <<selVars, matchVars, restartVars, faults>>

\* lines 288 / 375 with 173-185: the fetch and the scan of the immediate
\* check, and the alert when it matches.  A RequestException of the fetch, an
\* IndexError of the scan or an exception of send_message ends the handler.
ImmediateCheck(feed, sent) ==
    /\ h_pc = "check"
    /\ IF ~feed.up
       THEN /\ h_pc' = "done"
            /\ h_error' = "RequestException"
            /\ UNCHANGED <<h_top7, alerts>>
       ELSE LET top7 == get_top7_markets(feed.data, BotNow)
                r == check_single_threshold(top7, h_cmd.surname, h_cmd.price)
            IN /\ h_top7' = top7
               /\ h_pc' = IF r.kind = "match" /\ sent = "sent" THEN "breached" ELSE "done"
               /\ h_error' = IF r.kind = "raise" THEN "IndexError"
                             ELSE IF r.kind = "match" /\ sent = "raises"
                                  THEN "DeliveryFailed" ELSE "none"
               /\ alerts' = IF r.kind = "match" /\ sent = "sent"
                            THEN [alerts EXCEPT ![h_cmd.id].h = @ + 1]
                            ELSE alerts
    /\ UNCHANGED <<h_cmd, h_new_list, h_replies, h_saves, n_cmds>>
    /\ UNCHANGED <<storeVars, watcherVars, notices, undelivered>>
    /\ UNCHANGED <<selVars, matchVars, restartVars, faults>>

\* lines 289-292 / 376-378: the chat is bound to a new list without the
\* surname, and the save
BreachedRemove(how) ==
    /\ h_pc = "breached"
    /\ LET k == IntKey(h_cmd.chat)
           old == DictGet(thresholds, k, <<>>)
       IN /\ thresholds' = AfterSave(thresholds,
                                     DictSet(thresholds, k, WithoutSurname(old, h_cmd.surname)),
                                     how)
          /\ w_items' = Detach(w_items, k, old)
    /\ file' = save_thresholds(file, thresholds', how)
    /\ h_saves' = h_saves + 1
    /\ h_error' = IF Raises(how) THEN "OSError" ELSE "none"
    /\ h_pc' = "done"
    /\ UNCHANGED <<next_id, h_cmd, h_top7, h_new_list, h_replies, n_cmds>>
    /\ UNCHANGED <<watcherLocals, sentVars>>
    /\ UNCHANGED <<selVars, matchVars, restartVars, faults>>

\* lines 348-352: remove_all
ClearChat(chat, how) ==
    /\ thresholds' = AfterSave(thresholds, DictPop(thresholds, IntKey(chat)), how)
    /\ w_items' = Detach(w_items, IntKey(chat), DictGet(thresholds, IntKey(chat), <<>>))
    /\ file' = save_thresholds(file, thresholds', how)
    /\ h_saves' = 1
    /\ Handled(how, <<Reply("all_removed")>>, "done")

RemoveAll(chat) ==
    /\ Arrives("remove_all", chat, <<>>, 0, 0)
    /\ \E how \in SaveOutcomes : ClearChat(chat, how)
    /\ UNCHANGED <<next_id, h_top7, h_new_list>>
    /\ UNCHANGED <<watcherLocals, sentVars>>
    /\ UNCHANGED <<selVars, matchVars, restartVars, faults>>

\* lines 320-339: /remove or the text "remove X" as far as new_list
RemoveThreshold(chat, args) ==
    /\ Arrives("remove", chat, args.surname, 0, 0)
    /\ IF args.n # 1
       THEN /\ h_replies' = <<Reply("usage")>>
            /\ h_saves' = 0
            /\ h_error' = "none"
            /\ h_pc' = "done"
            /\ UNCHANGED <<thresholds, file, h_new_list, w_items>>
       ELSE IF Lower(args.surname) = <<"a", "l", "l">>
       THEN /\ \E how \in SaveOutcomes : ClearChat(chat, how)
            /\ UNCHANGED h_new_list
       ELSE /\ h_new_list' = WithoutSurname(UserThresholds(thresholds, chat), args.surname)
            /\ h_pc' = "remove"
            /\ h_replies' = <<>>
            /\ h_saves' = 0
            /\ h_error' = "none"
            /\ UNCHANGED <<thresholds, file, w_items>>
    /\ UNCHANGED <<next_id, h_top7>>
    /\ UNCHANGED <<watcherLocals, sentVars>>
    /\ UNCHANGED <<selVars, matchVars, restartVars, faults>>

\* lines 340-345: len(user_th) is the length the chat's list has now
RemoveDecide(how) ==
    /\ h_pc = "remove"
    /\ LET k == IntKey(h_cmd.chat)
           user_th == DictGet(thresholds, k, <<>>)
       IN IF Len(h_new_list) = Len(user_th)
          THEN /\ h_replies' = <<Reply("not_found")>>
               /\ h_error' = "none"
               /\ h_pc' = "done"
               /\ UNCHANGED <<thresholds, file, h_saves, w_items>>
          ELSE /\ thresholds' = AfterSave(thresholds, DictSet(thresholds, k, h_new_list), how)
               /\ w_items' = Detach(w_items, k, user_th)
               /\ file' = save_thresholds(file, thresholds', how)
               /\ h_saves' = h_saves + 1
               /\ Handled(how, <<Reply("removed")>>, "done")
    /\ UNCHANGED <<next_id, h_cmd, h_top7, h_new_list, n_cmds>>
    /\ UNCHANGED <<watcherLocals, sentVars>>
    /\ UNCHANGED <<selVars, matchVars, restartVars, faults>>

\* lines 294-317: /thresholds
ListThresholds(chat) ==
    /\ Arrives("thresholds", chat, <<>>, 0, 0)
    /\ LET user_th == UserThresholds(thresholds, chat)
       IN h_replies' = IF user_th = <<>> THEN <<Reply("no_thresholds")>>
                       ELSE <<ReplyList(user_th)>>
    /\ h_saves' = 0
    /\ h_error' = "none"
    /\ h_pc' = "done"
    /\ UNCHANGED <<storeVars, h_top7, h_new_list>>
    /\ UNCHANGED <<watcherVars, sentVars>>
    /\ UNCHANGED <<selVars, matchVars, restartVars, faults>>

\* lines 386-402: the fetch that opens a cycle.  When it raises
\* RequestException every key of thresholds is sent the error and the
\* thread sleeps 60 seconds; otherwise the items of thresholds are listed.
WatcherFetch(feed) ==
    /\ w_pc \in {"sleep", "backoff"}
    /\ IF ~feed.up
       THEN /\ notices' = [to |-> [i \in DOMAIN thresholds |-> thresholds[i].key],
                           holders |-> {thresholds[i].key : i \in
                                          {j \in DOMAIN thresholds : thresholds[j].val # <<>>}}]
            /\ w_pc' = "backoff"
            /\ UNCHANGED <<w_top7, w_items>>
       ELSE /\ w_top7' = get_top7_markets(feed.data, BotNow)
            /\ w_items' = LiveItems(thresholds)
            /\ w_pc' = "chats"
            /\ notices' = NoNotices
    /\ w_error' = "none"
    /\ UNCHANGED <<w_chat, w_user_th, w_thr, w_k, alerts, undelivered>>
    /\ UNCHANGED <<storeVars, handlerVars>>
    /\ UNCHANGED <<selVars, matchVars, restartVars, faults>>

\* the remove run only when the alert went out
RemoveAfterSend_OnlyIfSent(lst, thr, sent) ==
    IF sent = "sent" THEN ListRemove(lst, thr) ELSE lst

\* lines 409-417: the except of line 415 logs what send_message raised, and
\* the remove of line 417 runs after the try statement either way
RemoveAfterSend(lst, thr, sent) == ListRemove(lst, thr)

\* the alerts that raised in the cycle now over
Fold(u) == [now |-> {}, past |-> u.past \cup u.now]

\* a watcher whose thread ends with the cycle
EndCycle_Stops(err) ==
    /\ w_pc' = "stopped"
    /\ w_top7' = <<>>
    /\ w_items' = <<>>
    /\ w_chat' = IntKey(0)
    /\ w_user_th' = <<>>
    /\ w_thr' = NoThr
    /\ w_k' = 0
    /\ w_error' = err

\* the end of a cycle: the loops are over, or the except of lines 420-421
\* has logged err; then time.sleep(10), line 422, and the while goes on
EndCycle(err) ==
    /\ w_pc' = "sleep"
    /\ w_top7' = <<>>
    /\ w_items' = <<>>
    /\ w_chat' = IntKey(0)
    /\ w_user_th' = <<>>
    /\ w_thr' = NoThr
    /\ w_k' = 0
    /\ w_error' = err

\* the loop of line 403 takes the next threshold of rest, with the loop of
\* line 406 at its first market; with no threshold left, or no market in
\* top7 to scan any against, the loop of line 402 goes on
NextThreshold(rest) ==
    IF rest = <<>> \/ w_top7 = <<>>
    THEN /\ w_pc' = "chats"
         /\ w_user_th' = <<>>
         /\ w_thr' = NoThr
         /\ w_k' = 0
    ELSE /\ w_pc' = "markets"
         /\ w_thr' = Head(rest)
         /\ w_user_th' = Tail(rest)
         /\ w_k' = 1

\* the loop of line 406 takes the next market, or is over
NextMarket ==
    IF w_k < Len(w_top7)
    THEN /\ w_k' = w_k + 1
         /\ UNCHANGED <<w_pc, w_user_th, w_thr>>
    ELSE NextThreshold(w_user_th)

\* lines 402-403: the next chat of the items, and list(user_th)
WatcherNextChat ==
    /\ w_pc = "chats"
    /\ IF w_items = <<>>
       THEN /\ EndCycle("none")
            /\ undelivered' = Fold(undelivered)
       ELSE /\ w_chat' = Head(w_items).chat
            /\ w_items' = Tail(w_items)
            /\ NextThreshold(ItemList(Head(w_items), thresholds))
            /\ UNCHANGED <<w_top7, w_error, undelivered>>
    /\ UNCHANGED <<storeVars, handlerVars, alerts, notices>>
    /\ UNCHANGED <<selVars, matchVars, restartVars, faults>>

\* lines 406-419 for one market of top7: the scan of its outcomes; on the
\* first match the alert, whose exception line 415 catches,
\* thresholds[chat].remove(thr), the save and the break out of the loop over
\* the outcomes.  Any other exception (IndexError of the scan, KeyError or
\* ValueError of the remove, an exception of the save) is caught at line 420
\* and ends the cycle.
WatcherMarket(sent, how) ==
    /\ w_pc = "markets"
    /\ LET r == WatchMarket(w_top7[w_k].mkt, w_thr)
           lst == DictGet(thresholds, w_chat, <<>>)
           u == IF sent = "raises"
                THEN [undelivered EXCEPT !.now = @ \cup {w_thr.id}]
                ELSE undelivered
       IN IF r.kind = "raise"
          THEN /\ EndCycle("IndexError")
               /\ undelivered' = Fold(undelivered)
               /\ UNCHANGED <<thresholds, file, alerts>>
          ELSE IF r.kind = "nomatch"
          THEN /\ NextMarket
               /\ UNCHANGED <<w_top7, w_items, w_chat, w_error>>
               /\ UNCHANGED <<thresholds, file, alerts, undelivered>>
          ELSE /\ alerts' = IF sent = "sent"
                            THEN [alerts EXCEPT ![w_thr.id].w = @ + 1]
                            ELSE alerts
               /\ IF ~DictHas(thresholds, w_chat)
                  THEN /\ EndCycle("KeyError")
                       /\ undelivered' = Fold(u)
                       /\ UNCHANGED <<thresholds, file>>
                  ELSE IF ~ListHas(lst, w_thr)
                  THEN /\ EndCycle("ValueError")
                       /\ undelivered' = Fold(u)
                       /\ UNCHANGED <<thresholds, file>>
                  ELSE /\ thresholds' = AfterSave(thresholds,
                                                  DictSet(thresholds, w_chat,
                                                          RemoveAfterSend(lst, w_thr, sent)),
                                                  how)
                       /\ file' = save_thresholds(file, thresholds', how)
                       /\ IF Raises(how)
                          THEN /\ EndCycle("OSError")
                               /\ undelivered' = Fold(u)
                          ELSE /\ NextMarket
                               /\ undelivered' = u
                               /\ UNCHANGED <<w_top7, w_items, w_chat, w_error>>
    /\ UNCHANGED <<next_id, notices>>
    /\ UNCHANGED handlerVars
    /\ UNCHANGED <<selVars, matchVars, restartVars, faults>>

\* the steps of the threshold_watcher thread
Watcher ==
    \/ \E feed \in Feeds : WatcherFetch(feed)
    \/ WatcherNextChat
    \/ \E sent \in SendOutcomes, how \in SaveOutcomes : WatcherMarket(sent, how)

\* the steps of the handlers, on the event loop
Handlers ==
    \/ \E chat \in BotChats, args \in SetThresholdArgs : SetThreshold(chat, args)
    \/ \E chat \in BotChats, surname \in AddSurnames, price \in TextPrices :
          TextThreshold(chat, surname, price)
    \/ \E feed \in Feeds, sent \in SendOutcomes : ImmediateCheck(feed, sent)
    \/ \E how \in SaveOutcomes : BreachedRemove(how)
    \/ \E chat \in BotChats, args \in RemoveArgs : RemoveThreshold(chat, args)
    \/ \E how \in SaveOutcomes : RemoveDecide(how)
    \/ \E chat \in BotChats : RemoveAll(chat)
    \/ \E chat \in BotChats : ListThresholds(chat)
    \/ Return

Next == Handlers \/ Watcher

Spec == BotInit /\ [][Next]_vars

\* the same bot where sends and saves can raise
FaultInit == BotStarted /\ n_cmds = 0 /\ faults = TRUE
FaultSpec == FaultInit /\ [][Next]_vars

\* the same bot with one update left to handle
LiveInit == BotStarted /\ n_cmds = MaxCommands - 1 /\ faults = TRUE

\* the thread is scheduled again and again: each of its steps that can be
\* taken is taken in the end
LiveSpec == LiveInit /\ [][Next]_vars /\ WF_vars(Watcher)

----------------------------------------------------------------------------
(* SelectSpec: get_top7_markets applied to catalogues drawn from a pool *)

\* the most tennis sport keys whose odds fetch_markets flattens into one list
MaxTennisKeys == 4

\* starts at 00:00Z written with a +02:00 offset; bet365 (1 market) is not
\* the first bookmaker
evEarly == Event(Iso(2, 2),
                 <<Bookmaker("pinnacle", <<NoOutcomes, NoOutcomes>>),
                   Bookmaker("Bet365_AU", <<NoOutcomes>>)>>)
\* starts at hour 73; no bet365, the largest bookmaker has 2 markets
evLate == Event(Iso(73, 0),
                <<Bookmaker("pinnacle", <<NoOutcomes>>),
                  Bookmaker("betfair_exchange", <<NoOutcomes, NoOutcomes>>)>>)
\* starts at hour 10 written with a -01:00 offset; 1 market
evMid == Event(Iso(9, -1), <<Bookmaker("pinnacle", <<NoOutcomes>>)>>)
\* starts at hour 30; no bookmakers at all
evBare == Event(Iso(30, 0), <<>>)
\* a commence_time that fromisoformat rejects
evBad == Event(Unparsable, <<Bookmaker("bet365", <<NoOutcomes, NoOutcomes>>)>>)

\* the odds lists one tennis sport key may answer with
SelectResponses ==
    { <<evMid, evEarly, evMid>>,
      <<evLate, evBad, evMid>>,
      <<evBare, evLate>>,
      <<evEarly, evBare, evLate>>,
      <<evBad>> }
SelectNows == {0, 1}

SelInit ==
    /\ s_data = <<>>
    /\ s_keys = 0
    /\ s_failed = 0
    /\ s_now \in SelectNows
    /\ s_top7 = <<>>
    /\ s_pc = "build"
    /\ MatchIdle
    /\ StoreIdle
    /\ RestartIdle
    /\ BotIdle

\* all_markets.extend(data) for one more tennis sport key
SelFetched(resp) ==
    /\ s_pc = "build"
    /\ s_keys < MaxTennisKeys
    /\ s_data' = s_data \o resp
    /\ s_keys' = s_keys + 1
    /\ UNCHANGED <<s_failed, s_now, s_top7, s_pc>>
    /\ UNCHANGED <<matchVars, storeVars, restartVars, botVars>>

\* get_top7_markets() on that list
SelSelect ==
    /\ s_pc = "build"
    /\ s_top7' = get_top7_markets(s_data, s_now)
    /\ s_pc' = "done"
    /\ UNCHANGED <<s_data, s_keys, s_failed, s_now>>
    /\ UNCHANGED <<matchVars, storeVars, restartVars, botVars>>

SelNext ==
    \/ \E resp \in SelectResponses : SelFetched(resp)
    \/ SelSelect

SelectSpec == SelInit /\ [][SelNext]_vars

InWindow(m, now) ==
    /\ m.commence_time.ok
    /\ now <= m.commence_time.hour - m.commence_time.offset
    /\ m.commence_time.hour - m.commence_time.offset <= now + 72

NumInWindow(data, now) == Cardinality({k \in DOMAIN data : InWindow(data[k], now)})

\* C6: the selection holds at most 7 events, each one a record of the
\* catalogue whose start parsed and lies in [now, now + 3 days]
C6_SelectionBounded ==
    s_pc = "done" =>
        /\ Len(s_top7) <= 7
        /\ \A i \in DOMAIN s_top7 :
              /\ \E k \in DOMAIN s_data : s_data[k] = s_top7[i].mkt
              /\ InWindow(s_top7[i].mkt, s_now)

\* a catalogue with more than 7 events in the window, an unparsable one and
\* one outside the window, selected down to 7
C6_Witness ==
    /\ s_pc = "done"
    /\ Len(s_top7) = 7
    /\ NumInWindow(s_data, s_now) > 7
    /\ \E k \in DOMAIN s_data : ~s_data[k].commence_time.ok
    /\ \E k \in DOMAIN s_data :
          s_data[k].commence_time.ok /\ ~InWindow(s_data[k], s_now)

Outranks(x, y) ==
    \/ get_play_count(x.mkt) > get_play_count(y.mkt)
    \/ get_play_count(x.mkt) = get_play_count(y.mkt) /\ x.dt_utc < y.dt_utc

\* C7: the selection is ordered by descending play count, ties by ascending
\* start; every in-window event that outranks the last selected one is
\* selected, and a selection shorter than 7 holds every in-window event
C7_SortOrder ==
    s_pc = "done" =>
        /\ \A i, j \in DOMAIN s_top7 :
              i < j =>
                \/ get_play_count(s_top7[i].mkt) > get_play_count(s_top7[j].mkt)
                \/ /\ get_play_count(s_top7[i].mkt) = get_play_count(s_top7[j].mkt)
                   /\ s_top7[i].dt_utc <= s_top7[j].dt_utc
        /\ Len(s_top7) < 7 => Len(s_top7) = NumInWindow(s_data, s_now)
        /\ s_top7 # <<>> =>
              LET last == s_top7[Len(s_top7)]
                  asItem(m) == [mkt |-> m,
                                dt_utc |-> m.commence_time.hour - m.commence_time.offset]
              IN Cardinality({k \in DOMAIN s_data :
                                 /\ InWindow(s_data[k], s_now)
                                 /\ Outranks(asItem(s_data[k]), last)})
                 = Cardinality({i \in DOMAIN s_top7 : Outranks(s_top7[i], last)})

\* more than 7 in-window events with different play counts and, among equal
\* play counts, different starts: the selection had to rank and to cut
C7_Witness ==
    /\ s_pc = "done"
    /\ Len(s_top7) = 7
    /\ NumInWindow(s_data, s_now) > 7
    /\ \E i, j \in DOMAIN s_top7 :
          get_play_count(s_top7[i].mkt) # get_play_count(s_top7[j].mkt)
    /\ \E k \in DOMAIN s_data :
          /\ InWindow(s_data[k], s_now)
          /\ \A i \in DOMAIN s_top7 : s_top7[i].mkt # s_data[k]
    /\ s_data[1] # s_top7[1].mkt

----------------------------------------------------------------------------
(* StoreSpec: the store under adds and clears, each followed by            *)
(* save_thresholds, with the process ending at any point and starting      *)
(* again with load_thresholds                                              *)

\* the most thresholds created in one behaviour of StoreSpec
MaxStoreAdds == 3

ChatIds == {7, 12}
StoreSurnames == { <<"s", "f">>, <<"r">> }
StorePrices == {250, 300}

StoreInit ==
    /\ file = FileMissing
    /\ thresholds = load_thresholds(FileMissing)
    /\ next_id = 1
    /\ st_pc = "run"
    /\ st_mem = <<>>
    /\ st_old = <<>>
    /\ st_how = "none"
    /\ SelIdle
    /\ MatchIdle
    /\ BotIdle

\* lines 63-64: save_thresholds as far as the open that truncates the file
StBeginSave ==
    /\ st_old' = IF file.exists /\ file.complete THEN file.text ELSE <<>>
    /\ file' = FileOpenedForWrite
    /\ st_pc' = "saving"
    /\ st_how' = "none"
    /\ UNCHANGED st_mem

\* lines 279-280 (366-367): the append of an add command, and the save begun
StSetThreshold(chat, surname, price) ==
    /\ st_pc = "run"
    /\ next_id <= MaxStoreAdds
    /\ thresholds' = StoreAppend(thresholds, IntKey(chat),
                                 Threshold(surname, price, next_id))
    /\ next_id' = next_id + 1
    /\ StBeginSave
    /\ UNCHANGED <<selVars, matchVars, botVars>>

\* lines 350-351: remove_all, and the save begun
StRemoveAll(chat) ==
    /\ st_pc = "run"
    /\ thresholds' = DictPop(thresholds, IntKey(chat))
    /\ StBeginSave
    /\ UNCHANGED <<next_id, selVars, matchVars, botVars>>

\* line 65: json.dump and the close of the file
StSaveWrite ==
    /\ st_pc = "saving"
    /\ file' = FileWritten(thresholds)
    /\ st_pc' = "run"
    /\ UNCHANGED <<thresholds, next_id, st_mem, st_old, st_how>>
    /\ UNCHANGED <<selVars, matchVars, botVars>>

\* the process ends (killed, or the machine stops) and is started again:
\* line 453, load_thresholds()
StRestart ==
    /\ st_pc \in {"run", "saving"}
    /\ st_mem' = thresholds
    /\ st_how' = IF st_pc = "saving" THEN "midsave" ELSE "clean"
    /\ thresholds' = load_thresholds(file)
    /\ st_pc' = "run"
    /\ UNCHANGED <<file, next_id, st_old>>
    /\ UNCHANGED <<selVars, matchVars, botVars>>

StoreNext ==
    \/ \E chat \in ChatIds, surname \in StoreSurnames, price \in StorePrices :
          StSetThreshold(chat, surname, price)
    \/ \E chat \in ChatIds : StRemoveAll(chat)
    \/ StSaveWrite
    \/ StRestart

StoreSpec == StoreInit /\ [][StoreNext]_vars

DictKeys(d) == {d[i].key : i \in DOMAIN d}

\* dict == : the same keys with equal lists
SameDict(d, e) ==
    /\ DictKeys(d) = DictKeys(e)
    /\ \A k \in DictKeys(d) : DictGet(d, k, <<>>) = DictGet(e, k, <<>>)

\* C4: a mapping keyed by integer chat ids, saved completely and loaded
\* again, is the same mapping, and thresholds.get(chat, []) gives every chat
\* id the list it gave before
C4_RoundTrip ==
    (st_how = "clean" /\ \A k \in DictKeys(st_mem) : k.t = "int") =>
        /\ SameDict(thresholds, st_mem)
        /\ \A chat \in ChatIds :
              UserThresholds(thresholds, chat) = UserThresholds(st_mem, chat)

\* C5: after the process ended inside save_thresholds, load_thresholds gives
\* the mapping the file held before the save or the one being saved
C5_CrashSafe ==
    st_how = "midsave" =>
        \/ JsonDump(thresholds) = st_old
        \/ JsonDump(thresholds) = JsonDump(st_mem)

----------------------------------------------------------------------------
(* MatchSpec: both matchers applied to one threshold and one quoted        *)
(* outcome, then again after changes of letter case                        *)

SwapCaseChar(c) ==
    CASE c = "s" -> "S" [] c = "S" -> "s"
      [] c = "f" -> "F" [] c = "F" -> "f"
      [] c = "r" -> "R" [] c = "R" -> "r"
      [] OTHER -> c

SwapCaseAt(str, i) == [str EXCEPT ![i] = SwapCaseChar(str[i])]

\* surnames a subscriber may type
MatchSurnames == { <<"s", "f">>, <<"F", "s">>, <<"r">> }
\* names the odds API may quote: two tokens, one token, a longer token that
\* ends like a surname, the surname first, trailing blank, blank
MatchNames ==
    { <<"r", " ", "S", "F">>, <<"f", "s">>, <<"r", "s", "f">>,
      <<"s", "f", " ", "r">>, <<"R", " ", "s", "f", " ">>, <<" ">> }
MatchPrices == {260, 300}
MatchThresholds == {250, 300}

\* a selection of one market whose first bookmaker quotes the one outcome
OneQuote(name, price) ==
    Event(Iso(1, 0),
          <<Bookmaker("pinnacle", <<Market(<<Outcome(name, price)>>)>>)>>)

CheckDecision(surname, name, price, thr_price) ==
    check_single_threshold(<<[mkt |-> OneQuote(name, price), dt_utc |-> 1]>>,
                           surname, thr_price).kind

WatchDecision(surname, name, price, thr_price) ==
    WatchMarket(OneQuote(name, price),
                [surname |-> surname, threshold |-> thr_price]).kind

MatchInit ==
    /\ m_surname \in MatchSurnames
    /\ m_name \in MatchNames
    /\ m_price \in MatchPrices
    /\ m_thr \in MatchThresholds
    /\ m_pc = "new"
    /\ m_check = "none"
    /\ m_watch = "none"
    /\ m_first = [check |-> "none", watch |-> "none"]
    /\ SelIdle
    /\ StoreIdle
    /\ RestartIdle
    /\ BotIdle

\* the first evaluation of both matchers
MatchEval ==
    /\ m_pc = "new"
    /\ m_check' = CheckDecision(m_surname, m_name, m_price, m_thr)
    /\ m_watch' = WatchDecision(m_surname, m_name, m_price, m_thr)
    /\ m_first' = [check |-> m_check', watch |-> m_watch']
    /\ m_pc' = "done"
    /\ UNCHANGED <<m_surname, m_name, m_price, m_thr>>
    /\ UNCHANGED <<selVars, storeVars, restartVars, botVars>>

\* the same threshold typed with one letter in the other case
MatchRecaseSurname(i) ==
    /\ m_pc = "done"
    /\ m_surname' = SwapCaseAt(m_surname, i)
    /\ m_check' = CheckDecision(m_surname', m_name, m_price, m_thr)
    /\ m_watch' = WatchDecision(m_surname', m_name, m_price, m_thr)
    /\ UNCHANGED <<m_name, m_price, m_thr, m_pc, m_first>>
    /\ UNCHANGED <<selVars, storeVars, restartVars, botVars>>

\* the same participant quoted with one letter in the other case
MatchRecaseName(i) ==
    /\ m_pc = "done"
    /\ m_name' = SwapCaseAt(m_name, i)
    /\ m_check' = CheckDecision(m_surname, m_name', m_price, m_thr)
    /\ m_watch' = WatchDecision(m_surname, m_name', m_price, m_thr)
    /\ UNCHANGED <<m_surname, m_price, m_thr, m_pc, m_first>>
    /\ UNCHANGED <<selVars, storeVars, restartVars, botVars>>

MatchNext ==
    \/ MatchEval
    \/ \E i \in DOMAIN m_surname : MatchRecaseSurname(i)
    \/ \E i \in DOMAIN m_name : MatchRecaseName(i)

MatchSpec == MatchInit /\ [][MatchNext]_vars

CasePairs == { {"s", "S"}, {"f", "F"}, {"r", "R"} }

SameIgnoringCase(a, b) ==
    /\ Len(a) = Len(b)
    /\ \A k \in DOMAIN a : a[k] = b[k] \/ {a[k], b[k]} \in CasePairs

IsBlank(name) == \A k \in DOMAIN name : name[k] = " "

\* the last whitespace-delimited token of a name that is not blank
SurnameOf(name) ==
    LET j == CHOOSE x \in DOMAIN name :
                 name[x] # " " /\ \A y \in DOMAIN name : y > x => name[y] = " "
        i == CHOOSE x \in 0..j :
                 /\ x = 0 \/ name[x] = " "
                 /\ \A y \in (x + 1)..j : name[y] # " "
    IN SubSeq(name, i + 1, j)

\* C8: both matchers decide alike, their decision is the one first taken
\* whatever letters of the surname or of the participant name changed case
\* since, and it is a match exactly when the last whitespace-delimited
\* token of the name equals the surname ignoring case and price <= threshold
C8_CaseInsensitiveMatch ==
    m_pc = "done" =>
        /\ m_check = m_first.check
        /\ m_watch = m_first.watch
        /\ m_check = m_watch
        /\ ~IsBlank(m_name) =>
              (m_check = "match" <=>
                  /\ SameIgnoringCase(SurnameOf(m_name), m_surname)
                  /\ m_price <= m_thr)

\* (Nadal, Rafael NADAL): a two-token name whose surname differs from the
\* threshold's in case only, matched at price <= threshold
C8_Witness ==
    /\ m_pc = "done"
    /\ m_check = "match"
    /\ m_watch = "match"
    /\ Len(Split(m_name)) = 2
    /\ SurnameOf(m_name) # m_surname
    /\ \A k \in DOMAIN m_surname : m_surname[k] = LowerChar(m_surname[k])
    /\ m_name[1] # LowerChar(m_name[1])

----------------------------------------------------------------------------
(* QuoteSpec: both matchers applied to one threshold and a selection of    *)
(* events that several bookmakers quote                                    *)

\* the most events in the catalogue of QuoteSpec
MaxQuoteEvents == 2

\* two bookmakers: the first quotes SF at 2.60, the second at 2.40
evTwoSources ==
    Event(Iso(2, 0),
          <<Bookmaker("pinnacle",
               <<Market(<<Outcome(Participant(<<"f">>, <<"R">>), 150),
                          Outcome(Participant(<<"R">>, <<"S", "F">>), 260)>>)>>),
            Bookmaker("betfair_exchange",
               <<Market(<<Outcome(Participant(<<"f">>, <<"R">>), 155),
                          Outcome(Participant(<<"R">>, <<"S", "F">>), 240)>>)>>)>>)
\* two bookmakers: the first quotes SF at 2.45, the second at 2.30
evBothSatisfy ==
    Event(Iso(3, 0),
          <<Bookmaker("pinnacle",
               <<Market(<<Outcome(Participant(<<"R">>, <<"S", "F">>), 245),
                          Outcome(Participant(<<"f">>, <<"R">>), 310)>>)>>),
            Bookmaker("unibet",
               <<Market(<<Outcome(Participant(<<"R">>, <<"S", "F">>), 230),
                          Outcome(Participant(<<"f">>, <<"R">>), 305)>>)>>)>>)

QuoteEvents == {evQuoted, evQuotedAgain, evTwoSources, evBothSatisfy}

\* lines 406-408 over the whole of top7 for one threshold: what the first
\* market that does not leave the threshold unmatched gives
RECURSIVE WatchScan(_, _, _)
WatchScan(top7, k, thr) ==
    IF k > Len(top7) THEN Miss
    ELSE LET r == WatchMarket(top7[k].mkt, thr)
         IN IF r.kind = "nomatch" THEN WatchScan(top7, k + 1, thr) ELSE r

QuoteInit ==
    /\ s_data = <<>>
    /\ s_keys = 0
    /\ s_failed = 0
    /\ s_now = BotNow
    /\ s_top7 = <<>>
    /\ s_pc = "quotes"
    /\ m_surname \in AddSurnames
    /\ m_thr \in AddPrices
    /\ m_name = <<>>
    /\ m_price = 0
    /\ m_pc = "new"
    /\ m_check = "none"
    /\ m_watch = "none"
    /\ m_first = [check |-> "none", watch |-> "none"]
    /\ StoreIdle
    /\ RestartIdle
    /\ BotIdle

\* one more event in the list fetch_markets returns
QuoteFetched(ev) ==
    /\ m_pc = "new"
    /\ Len(s_data) < MaxQuoteEvents
    /\ s_data' = Append(s_data, ev)
    /\ UNCHANGED <<s_keys, s_failed, s_now, s_top7, s_pc>>
    /\ UNCHANGED <<matchVars, storeVars, restartVars, botVars>>

\* get_top7_markets() and both scans for the threshold; m_first keeps what
\* each scan returns, the price with it
QuoteEval ==
    /\ m_pc = "new"
    /\ s_top7' = get_top7_markets(s_data, s_now)
    /\ m_first' = [check |-> check_single_threshold(s_top7', m_surname, m_thr),
                   watch |-> WatchScan(s_top7', 1,
                                       [surname |-> m_surname, threshold |-> m_thr])]
    /\ m_check' = m_first'.check.kind
    /\ m_watch' = m_first'.watch.kind
    /\ m_pc' = "done"
    /\ UNCHANGED <<s_data, s_keys, s_failed, s_now, s_pc>>
    /\ UNCHANGED <<m_surname, m_name, m_price, m_thr>>
    /\ UNCHANGED <<storeVars, restartVars, botVars>>

QuoteNext ==
    \/ \E ev \in QuoteEvents : QuoteFetched(ev)
    \/ QuoteEval

QuoteSpec == QuoteInit /\ [][QuoteNext]_vars

\* the quote at place <<event, source, market of the source, outcome>>
QuoteAt(top7, p) == top7[p[1]].mkt.bookmakers[p[2]].markets[p[3]].outcomes[p[4]]

\* the places of the quotes of a selection
Places(top7) ==
    UNION {UNION {UNION {{<<k, b, m, j>> :
                            j \in DOMAIN top7[k].mkt.bookmakers[b].markets[m].outcomes} :
                         m \in DOMAIN top7[k].mkt.bookmakers[b].markets} :
                  b \in DOMAIN top7[k].mkt.bookmakers} :
           k \in DOMAIN top7}

\* the places whose quote satisfies the threshold
Satisfying(top7, surname, thr_price) ==
    {p \in Places(top7) :
        /\ ~IsBlank(QuoteAt(top7, p).name)
        /\ SameIgnoringCase(SurnameOf(QuoteAt(top7, p).name), surname)
        /\ QuoteAt(top7, p).price <= thr_price}

\* event order, then source order, then quote order
Before(p, q) ==
    \E i \in 1..4 : p[i] < q[i] /\ \A h \in 1..(i - 1) : p[h] = q[h]

FirstSatisfying(top7, surname, thr_price) ==
    CHOOSE p \in Satisfying(top7, surname, thr_price) :
        \A q \in Satisfying(top7, surname, thr_price) : q = p \/ Before(p, q)

\* C17: when any source of any selected event quotes the surname at or
\* below the threshold, both scans match and return the price of the first
\* such quote in event, source and quote order; when none does, neither
\* matches
C17_EverySourceConsidered ==
    (s_pc = "quotes" /\ m_pc = "done") =>
        IF Satisfying(s_top7, m_surname, m_thr) = {}
        THEN m_check = "nomatch" /\ m_watch = "nomatch"
        ELSE LET first == QuoteAt(s_top7, FirstSatisfying(s_top7, m_surname, m_thr))
             IN /\ m_first.check = Hit(first.price)
                /\ m_first.watch = Hit(first.price)

----------------------------------------------------------------------------
(* FetchSpec: fetch_markets() request by request, and what the watcher     *)
(* does with its outcome                                                   *)

\* r2 of line 131: a status with the decoded body; status 0 stands for
\* no response at all
Answer(status, data) == [status |-> status, data |-> data]
\* 200 with events, 200 with an empty or null body, 401, 422, 500, timeout
OddsAnswers ==
    { Answer(200, <<evQuoted, evQuotedAgain>>),
      Answer(200, <<evAfterWindow>>),
      Answer(200, <<>>),
      Answer(401, <<>>),
      Answer(422, <<>>),
      Answer(500, <<>>),
      Answer(0, <<>>) }

FetchInit ==
    /\ s_data = <<>>
    /\ s_keys = 0
    /\ s_failed = 0
    /\ s_now = BotNow
    /\ s_top7 = <<>>
    /\ s_pc = "sports"
    /\ MatchIdle
    /\ StoreIdle
    /\ RestartIdle
    /\ BotIdle

\* lines 114-117: the request for the sports list; raise_for_status() and
\* requests.get() raise out of fetch_markets
FetchSports(ok) ==
    /\ s_pc = "sports"
    /\ s_pc' = IF ok THEN "keys" ELSE "raised"
    /\ UNCHANGED <<s_data, s_keys, s_failed, s_now, s_top7>>
    /\ UNCHANGED <<matchVars, storeVars, restartVars, botVars>>

\* lines 128-148: the request for one more tennis key.  401 and 422
\* continue, any other error status raises in raise_for_status() and is
\* caught at line 146 like a failed request; 200 extends all_markets
FetchOdds(ans) ==
    /\ s_pc = "keys"
    /\ s_keys < MaxTennisKeys
    /\ s_keys' = s_keys + 1
    /\ IF ans.status = 200
       THEN s_data' = s_data \o ans.data /\ s_failed' = s_failed
       ELSE s_data' = s_data /\ s_failed' = s_failed + 1
    /\ UNCHANGED <<s_now, s_top7, s_pc>>
    /\ UNCHANGED <<matchVars, storeVars, restartVars, botVars>>

\* lines 122-124 and 150-152: no tennis key left; all_markets is returned,
\* with a warning when it is empty
FetchReturn ==
    /\ s_pc = "keys"
    /\ s_pc' = "returned"
    /\ UNCHANGED <<s_data, s_keys, s_failed, s_now, s_top7>>
    /\ UNCHANGED <<matchVars, storeVars, restartVars, botVars>>

\* lines 385-402: the watcher backs off when the fetch raised and goes on
\* to evaluate the selection when it returned
FetchCycle ==
    /\ s_pc \in {"returned", "raised"}
    /\ IF s_pc = "raised"
       THEN s_pc' = "backoff" /\ s_top7' = s_top7
       ELSE s_pc' = "evaluate" /\ s_top7' = get_top7_markets(s_data, s_now)
    /\ UNCHANGED <<s_data, s_keys, s_failed, s_now>>
    /\ UNCHANGED <<matchVars, storeVars, restartVars, botVars>>

FetchNext ==
    \/ \E ok \in BOOLEAN : FetchSports(ok)
    \/ \E ans \in OddsAnswers : FetchOdds(ans)
    \/ FetchReturn
    \/ FetchCycle

FetchSpec == FetchInit /\ [][FetchNext]_vars

\* C18: a fetch in which some sub-catalogue request succeeded returns and
\* the cycle evaluates; a fetch in which every sub-catalogue request failed
\* raises and the watcher treats the cycle as a failed fetch
C18_AllFailedIsFailure ==
    s_pc \in {"returned", "raised", "evaluate", "backoff"} =>
        /\ s_failed < s_keys => s_pc \in {"returned", "evaluate"}
        /\ (s_keys > 0 /\ s_failed = s_keys) => s_pc \in {"raised", "backoff"}

----------------------------------------------------------------------------
(* Claims about Spec *)

\* the identities of the thresholds in the store
ListIds(lst) == {lst[j].id : j \in DOMAIN lst}
StoreIds(d) == UNION {ListIds(d[i].val) : i \in DOMAIN d}

\* some market of the selection has, under its first bookmaker's first
\* market, a quote at or below the threshold for a participant whose last
\* name is the surname, ignoring case
QuoteSatisfies(top7, thr) ==
    \E k \in DOMAIN top7 :
        /\ top7[k].mkt.bookmakers # <<>>
        /\ top7[k].mkt.bookmakers[1].markets # <<>>
        /\ \E o \in {top7[k].mkt.bookmakers[1].markets[1].outcomes[j] :
                       j \in DOMAIN top7[k].mkt.bookmakers[1].markets[1].outcomes} :
              /\ ~IsBlank(o.name)
              /\ SameIgnoringCase(SurnameOf(o.name), thr.surname)
              /\ o.price <= thr.threshold

\* C1: the watcher sends at most one alert for a threshold, and a threshold
\* it has alerted for is no longer in the store
C1_AtMostOneFire ==
    \A id \in 1..MaxAdds :
        /\ alerts[id].w <= 1
        /\ alerts[id].w >= 1 => id \notin StoreIds(thresholds)

\* C2: when an add command returns whose threshold the selection of its
\* immediate check satisfied, one alert in all has been sent for that
\* threshold and it is not in the store
C2_ImmediateFireOnce ==
    (/\ h_pc = "done"
     /\ h_cmd.op = "add"
     /\ h_cmd.id > 0
     /\ QuoteSatisfies(h_top7, [surname |-> h_cmd.surname, threshold |-> h_cmd.price]))
    => /\ alerts[h_cmd.id].h + alerts[h_cmd.id].w = 1
       /\ h_cmd.id \notin StoreIds(thresholds)

\* the thresholds of a chat that a step takes out of the store
TakenOut(k) ==
    {c \in {DictGet(thresholds, k, <<>>)[j] : j \in DOMAIN DictGet(thresholds, k, <<>>)} :
        c.id \notin ListIds(DictGet(thresholds', k, <<>>))}

\* C3: a step that removes after a match (the removal after the immediate
\* check, or the watcher's) takes out of the store only thresholds that the
\* selection it matched against satisfies
C3_IndependentRemoval ==
    [][/\ (h_pc = "breached" /\ h_pc' = "done") =>
             \A c \in TakenOut(IntKey(h_cmd.chat)) : QuoteSatisfies(h_top7, c)
       /\ (w_pc = "markets" /\ alerts' # alerts /\ thresholds' # thresholds) =>
             \A c \in TakenOut(w_chat) : QuoteSatisfies(w_top7, c)]_vars

\* C9: after a cycle whose fetch failed the thread backs off, and the keys
\* sent the error notice are, once each, the keys that held at least one
\* threshold
C9_NoticeToHolders ==
    w_pc = "backoff" =>
        /\ {notices.to[i] : i \in DOMAIN notices.to} = notices.holders
        /\ Len(notices.to) = Cardinality(notices.holders)

\* C10: when remove_threshold decides for a surname (other than the word
\* all, which clears the chat) that no threshold of the chat matches
\* ignoring case, the store and the file stay as they are and the reply is
\* "No threshold found"
C10_RemoveNothing ==
    [][(/\ h_pc = "remove"
        /\ h_pc' = "done"
        /\ \A j \in DOMAIN UserThresholds(thresholds, h_cmd.chat) :
              ~SameIgnoringCase(UserThresholds(thresholds, h_cmd.chat)[j].surname,
                                h_cmd.surname))
       => /\ thresholds' = thresholds
          /\ file' = file
          /\ h_saves' = 0
          /\ h_replies' = <<Reply("not_found")>>]_vars

\* the thresholds an alert of the watcher has raised for
Undelivered == undelivered.now \cup undelivered.past

HandlerStore ==
    LET k == IntKey(IF h_pc = "idle" THEN h_cmd'.chat ELSE h_cmd.chat)
    IN CASE h_pc = "idle" /\ h_cmd'.op = "add" ->
                StoreAppend(thresholds, k,
                            Threshold(h_cmd'.surname, h_cmd'.price, h_cmd'.id))
         [] h_pc = "idle" /\ h_cmd'.op # "add" -> DictPop(thresholds, k)
         [] h_pc = "remove" -> DictSet(thresholds, k, h_new_list)
         [] h_pc = "breached" ->
                DictSet(thresholds, k,
                        WithoutSurname(DictGet(thresholds, k, <<>>), h_cmd.surname))

\* what the watcher's remove makes of thresholds
WatcherStore ==
    DictSet(thresholds, w_chat, ListRemove(DictGet(thresholds, w_chat, <<>>), w_thr))

\* C12: when save_thresholds raises, thresholds is what the operation makes
\* of it when the save succeeds, and the exception is not swallowed: it ends
\* the handler before any reply that reports success, or is logged by the
\* watcher, whose cycle it ends
C12_NoRollback ==
    [][/\ (h_error' = "OSError" /\ h_pc # "done") =>
             /\ thresholds' = HandlerStore
             /\ h_pc' = "done"
             /\ h_replies' = IF h_pc = "breached" THEN h_replies ELSE <<>>
       /\ (w_error' = "OSError" /\ w_pc = "markets") =>
             /\ thresholds' = WatcherStore
             /\ w_pc' = "sleep"]_vars

\* an add whose save raised: the threshold is in thresholds, no file was
\* written, the handler is over with the exception and without a reply
C12_Witness ==
    /\ h_error = "OSError"
    /\ h_cmd.op = "add"
    /\ h_cmd.id \in StoreIds(thresholds)
    /\ file = FileMissing
    /\ h_replies = <<>>

\* C13: every threshold in the store is above zero
C13_PositiveThresholds ==
    \A i \in DOMAIN thresholds :
        \A j \in DOMAIN thresholds[i].val : thresholds[i].val[j].threshold > 0

\* the thresholds of the cycle's items that the loops have not yet come to
Unevaluated ==
    {w_user_th[j] : j \in DOMAIN w_user_th}
    \cup UNION {{ItemList(w_items[i], thresholds)[j] :
                    j \in DOMAIN ItemList(w_items[i], thresholds)} :
                i \in DOMAIN w_items}

\* C14: a cycle does not end on the scan of one threshold raising while
\* thresholds of its items are still to be evaluated
C14_CycleSurvivesMatcherFailure ==
    [][(/\ w_pc = "markets"
        /\ WatchMarket(w_top7[w_k].mkt, w_thr).kind = "raise"
        /\ w_pc' = "sleep")
       => Unevaluated = {}]_vars

\* C15: a threshold object comes into the store only when an add creates
\* it; one that has left the store (removed by the watcher after its alert,
\* or by a handler) is never in it again
C15_NeverReappears ==
    [][\A id \in StoreIds(thresholds') \ StoreIds(thresholds) : id = next_id]_vars

\* the watcher's scan of the market at hand matches a threshold that
\* remove_threshold or remove_all has taken out of the store since the items
\* were listed: the watcher has not removed it (it has sent no alert for
\* it), and no immediate check has matched, so that lines 291 and 377 have
\* not run
MatchesRemoved ==
    /\ w_pc = "markets"
    /\ WatchMarket(w_top7[w_k].mkt, w_thr).kind = "match"
    /\ w_thr.id \notin StoreIds(thresholds)
    /\ alerts[w_thr.id].w = 0
    /\ w_thr.id \notin Undelivered
    /\ \A id \in DOMAIN alerts : alerts[id].h = 0

\* C16: the watcher's step on such a threshold raises nothing, leaves the
\* store as it is and goes on with the cycle
C16_RemoveOneNoOp ==
    [][(MatchesRemoved /\ w_pc' # w_pc)
       => /\ thresholds' = thresholds
          /\ w_error' = "none"
          /\ w_pc' # "sleep"]_vars

\* C19: the watcher never leaves its loop; from every place in a cycle it
\* comes back to sleeping between cycles, an exception that ended a cycle
\* is followed by the fetch of the next cycle, and so is a cycle in which
\* an alert could not be sent
C19_LoopNeverStops ==
    /\ [](w_pc \in {"sleep", "backoff", "chats", "markets"})
    /\ []<>(w_pc \in {"sleep", "backoff"})
    /\ (w_error # "none") ~> (w_error = "none" /\ w_pc \in {"chats", "backoff"})
    /\ (undelivered.now # {}) ~> (undelivered.now = {} /\ w_pc \in {"chats", "backoff"})

\* the items listed for a new cycle after a cycle in which an alert could
\* not be sent
C19_Witness ==
    /\ w_pc = "chats"
    /\ w_error = "none"
    /\ undelivered.past # {}

\* the keys whose entry, or whose presence, a step changes
ChangedKeys ==
    {k \in {thresholds[i].key : i \in DOMAIN thresholds}
            \cup {thresholds'[i].key : i \in DOMAIN thresholds'} :
        \/ DictHas(thresholds, k) # DictHas(thresholds', k)
        \/ DictGet(thresholds, k, <<>>) # DictGet(thresholds', k, <<>>)}

\* C20: a step of a handler changes no entry of thresholds but the one of
\* the chat whose update it handles, and a step of the watcher none but
\* the one of the chat whose thresholds it is evaluating
C20_OthersUnchanged ==
    [][IF h_pc' # h_pc
       THEN ChangedKeys \subseteq {IntKey(h_cmd'.chat)}
       ELSE ChangedKeys \subseteq {w_chat}]_vars

\* two subscribers: the watcher has alerted and removed a threshold of
\* one, the other still holds one
C20_Witness ==
    \E i, j \in DOMAIN thresholds :
       /\ i # j
       /\ thresholds[j].val # <<>>
       /\ \E id \in DOMAIN alerts :
             /\ alerts[id].w > 0
             /\ id \notin StoreIds(thresholds)
             /\ id \notin ListIds(thresholds[j].val)

====
